---- MODULE Spec2Model ----
(***************************************************************************)
(* Availability slots and bookings of the advising platform.               *)
(*                                                                         *)
(* The database holds Availability rows (a teacher's open 30-minute slot)  *)
(* and Booking rows (a student's claim on one slot).  Requests are served  *)
(* concurrently, one per worker: book_meeting (claim), cancel_booking      *)
(* (cancel) and save_availability (set / delete).  Notification e-mails    *)
(* are sent from the Booking post_save / pre_delete signal receivers.      *)
(***************************************************************************)
EXTENDS Integers, Sequences, FiniteSets, TLC

\* ------------------------------------------------------------------------
\* Bounds of the model
\* ------------------------------------------------------------------------
MaxProcs == 2
MaxRequests == 2

\* ------------------------------------------------------------------------
\* Program constants
\* ------------------------------------------------------------------------
MEETING_DURATION == 30
MinutesPerDay == 1440

\* The settings of the deployment: a day from 08:00 to 10:00, grid positions
\* every 15 minutes, meetings of 30 minutes
DayConfig == [START_TIME |-> <<8, 0>>, END_TIME |-> <<10, 0>>,
              SLOT_DURATION |-> 15, MEETING_DURATION |-> MEETING_DURATION]

Procs == 1..MaxProcs

Students == {"s1", "s2"}
Teachers == {"t1", "t2"}
AdminSeq == <<"a1">>
Admins == {AdminSeq[i] : i \in 1..Len(AdminSeq)}

Dates == {1, 2}
StartTimes == {540}
MeetingTypes == {"online", "in_person", "both"}

\* Texts are sequences of characters, so that stripping is computed.
Blank == " "
\* The message each student types into the booking form
ClaimMessage == [s \in Students |-> IF s = "s1" THEN <<Blank, "x">> ELSE <<"y", Blank>>]
CancelReasons == {<<>>, <<Blank, Blank>>, <<"r">>}
SlotNotes == {<<>>}

RECURSIVE LStrip(_)
LStrip(t) == IF t # <<>> /\ Head(t) = Blank THEN LStrip(Tail(t)) ELSE t

RECURSIVE RStrip(_)
RStrip(t) ==
    IF t # <<>> /\ t[Len(t)] = Blank THEN RStrip(SubSeq(t, 1, Len(t) - 1)) ELSE t

Strip(t) == RStrip(LStrip(t))

\* ------------------------------------------------------------------------
\* State
\* ------------------------------------------------------------------------
VARIABLES
    avail,          \* committed Availability rows
    bookings,       \* committed Booking rows
    nextAvailId,    \* next primary key of Availability
    nextBookingId,  \* next primary key of Booking
    completed,      \* students with a completed questionnaire
    pc,             \* position of each worker in its request handler
    req,            \* the request a worker serves
    loc,            \* the handler's local variables (rows it fetched)
    pend,           \* the Booking row inserted in a worker's open transaction
    outbox,         \* e-mails handed to the mail backend
    last,           \* the most recent response: request, fetched rows, result
    nreq,           \* number of requests received
    config          \* settings.AVAILABILITY_SETTINGS

vars == <<avail, bookings, nextAvailId, nextBookingId, completed,
          pc, req, loc, pend, outbox, last, nreq, config>>

NoReq == [kind |-> "none", user |-> "", target |-> 0, text |-> <<>>,
          teacher_id |-> "", date |-> 0, start_time |-> 0,
          meeting_type |-> "", action |-> ""]

NoBooking == [id |-> 0, availability |-> 0, student |-> "", message |-> <<>>]

NoLoc == [avails |-> {}, bookings |-> {}, slots |-> <<>>]

\* ------------------------------------------------------------------------
\* Queries
\* ------------------------------------------------------------------------
AvailById(id) == {a \in avail : a.id = id}

BookingOf(aid) == {b \in bookings : b.availability = aid}

\* hasattr(availability, "booking")
HasBooking(aid) == BookingOf(aid) # {}

\* Variant: the day check confined to bookings with the same teacher
ExistingBookingOnDate_SameTeacher(student, a) ==
    \E b \in bookings :
        /\ b.student = student
        /\ \E x \in avail : /\ x.id = b.availability
                            /\ x.date = a.date
                            /\ x.teacher = a.teacher

\* Booking.objects.filter(student=..., availability__date=...).exists()
ExistingBookingOnDate(student, a) ==
    \E b \in bookings :
        /\ b.student = student
        /\ \E x \in avail : x.id = b.availability /\ x.date = a.date

\* Workers whose open transaction holds the row lock of Availability aid
LockHolders(aid) ==
    {q \in Procs : /\ pc[q] \in {"claim_locked", "claim_checked", "claim_inserted"}
                   /\ \E a \in loc[q].avails : a.id = aid}

\* Variant: the lock of a committed claim is never released
LockFree_HeldAfterCommit(aid) == LockHolders(aid) = {} /\ BookingOf(aid) = {}

\* select_for_update(): the row lock is granted when no transaction holds it
LockFree(aid) == LockHolders(aid) = {}

\* Variant: the day check placed before the already-booked check
CheckOutcome_DayFirst(booked, dup) ==
    IF dup THEN "DuplicateDailyBooking"
    ELSE IF booked THEN "AlreadyBooked"
    ELSE "pass"

\* The order of the two rejections inside the locked section
CheckOutcome(booked, dup) ==
    IF booked THEN "AlreadyBooked"
    ELSE IF dup THEN "DuplicateDailyBooking"
    ELSE "pass"

\* Variant: the lookup without the student filter
FindBooking_AnyStudent(id, student) == {b \in bookings : b.id = id}

\* get_object_or_404(Booking, id=booking_id, student=request.user)
FindBooking(id, student) == {b \in bookings : b.id = id /\ b.student = student}

\* Variant: a relation that does not cascade
CascadeBookings_None(as) == {}

\* on_delete=CASCADE: the Booking rows collected with the Availability rows
CascadeBookings(as) == {b \in bookings : \E a \in as : a.id = b.availability}

\* getattr(instance, "cancellation_message", ""): the view never sets the
\* attribute, whatever text the request carried
CancellationMessageOf(text) == <<>>

\* Variant: the advisor's copy addressed to the student
Recipients_StudentTwice(student, teacher) == <<student, student>> \o AdminSeq

\* send_booking_confirmation / send_booking_cancellation: the student, the
\* advisor, then every admin
Recipients(student, teacher) == <<student, teacher>> \o AdminSeq

NumMails == 2 + Len(AdminSeq)

\* Number of notifications of this kind already sent about a Booking
Sent(kind, bid) ==
    Cardinality({m.n : m \in {x \in outbox : x.kind = kind /\ x.booking = bid}})

\* The first k e-mails of one notification
Mails(kind, b, teacher, reason, k) ==
    {[kind |-> kind, booking |-> b.id, to |-> Recipients(b.student, teacher)[i],
      reason |-> reason, n |-> Sent(kind, b.id) + 1] : i \in 1..k}

\* A request is handed to the first free worker
CanStart(p) ==
    /\ pc[p] = "idle"
    /\ nreq < MaxRequests
    /\ \A q \in Procs : q < p => pc[q] # "idle"

\* The handler of worker p continues at label with request r and locals l
Goto(p, label, r, l) ==
    /\ pc' = [pc EXCEPT ![p] = label]
    /\ req' = [req EXCEPT ![p] = r]
    /\ loc' = [loc EXCEPT ![p] = l]
    /\ last' = last

\* The handler of worker p returns the response result
Respond(p, r, l, result) ==
    /\ pc' = [pc EXCEPT ![p] = "idle"]
    /\ req' = [req EXCEPT ![p] = NoReq]
    /\ loc' = [loc EXCEPT ![p] = NoLoc]
    /\ last' = [req |-> r, loc |-> l, res |-> result]

\* HTTP status of a response
Status(result) ==
    CASE result \in {"ok", "created", "updated", "deleted",
                     "QuestionnaireRequired"} -> 200
      [] result \in {"AlreadyBooked", "DuplicateDailyBooking",
                     "InvalidMeetingType"} -> 400
      [] result \in {"EntryNotFound", "UserNotFound"} -> 404
      [] OTHER -> 500

\* ------------------------------------------------------------------------
\* Initial state
\* ------------------------------------------------------------------------
\* The database the requests start from: three slots opened earlier through
\* save_availability, and the slot on date 2 booked by student s1, whose
\* confirmation e-mails were delivered.
Slot(id, teacher, date, start_time) ==
    [id |-> id, teacher |-> teacher, date |-> date, start_time |-> start_time,
     end_time |-> start_time + MEETING_DURATION, meeting_type |-> "online",
     message |-> <<>>]

SeedAvail == {Slot(1, "t1", 1, 540), Slot(2, "t2", 1, 540), Slot(3, "t1", 2, 540)}

SeedBooking == [id |-> 1, availability |-> 3, student |-> "s1",
                message |-> Strip(ClaimMessage["s1"])]

SeedOutbox ==
    {[kind |-> "BookingCreated", booking |-> SeedBooking.id,
      to |-> Recipients(SeedBooking.student, "t1")[i], reason |-> <<>>, n |-> 1] :
        i \in 1..NumMails}

Init ==
    /\ avail = SeedAvail
    /\ bookings = {SeedBooking}
    /\ nextAvailId = Cardinality(SeedAvail) + 1
    /\ nextBookingId = SeedBooking.id + 1
    /\ completed = {"s1"}
    /\ pc = [p \in Procs |-> "idle"]
    /\ req = [p \in Procs |-> NoReq]
    /\ loc = [p \in Procs |-> NoLoc]
    /\ pend = [p \in Procs |-> NoBooking]
    /\ outbox = SeedOutbox
    /\ last = [req |-> NoReq, loc |-> NoLoc, res |-> "none"]
    /\ nreq = 0
    /\ config = DayConfig

\* ------------------------------------------------------------------------
\* questionnaire_view: a student submits a valid questionnaire
\* ------------------------------------------------------------------------
SubmitQuestionnaire(s) ==
    /\ s \notin completed
    /\ completed' = completed \cup {s}
    /\ UNCHANGED <<config, avail, bookings, nextAvailId, nextBookingId,
                   pc, req, loc, pend, outbox, last, nreq>>

\* ------------------------------------------------------------------------
\* book_meeting (POST): claim an Availability
\* ------------------------------------------------------------------------
\* Variant: the questionnaire gate left open
has_completed_questionnaire_Always(s) == TRUE

\* self.questionnaires.filter(completed=True).exists()
has_completed_questionnaire(s) == s \in completed

\* The request arrives; without a completed questionnaire the page is
\* rendered and nothing else happens.
StartClaim(p, s, aid, m) ==
    /\ CanStart(p)
    /\ nreq' = nreq + 1
    /\ LET r == [NoReq EXCEPT !.kind = "claim", !.user = s, !.target = aid,
                              !.text = m]
       IN IF has_completed_questionnaire(s)
            THEN Goto(p, "claim_wait", r, NoLoc)
            ELSE Respond(p, r, NoLoc, "QuestionnaireRequired")
    /\ UNCHANGED <<config, avail, bookings, nextAvailId, nextBookingId, completed,
                   pend, outbox>>

\* transaction.atomic(); select_for_update().get(id=availability_id)
ClaimLock(p) ==
    /\ pc[p] = "claim_wait"
    /\ IF AvailById(req[p].target) = {}
         THEN Respond(p, req[p], NoLoc, "EntryNotFound")
         ELSE /\ LockFree(req[p].target)
              /\ Goto(p, "claim_locked", req[p],
                      [NoLoc EXCEPT !.avails = AvailById(req[p].target)])
    /\ UNCHANGED <<config, avail, bookings, nextAvailId, nextBookingId, completed,
                   pend, outbox, nreq>>

\* The already-booked check and the one-booking-per-day check
ClaimCheck(p) ==
    /\ pc[p] = "claim_locked"
    /\ LET a == CHOOSE x \in loc[p].avails : TRUE
           outcome == CheckOutcome(HasBooking(a.id),
                                   ExistingBookingOnDate(req[p].user, a))
       IN IF outcome = "pass"
            THEN Goto(p, "claim_checked", req[p], loc[p])
            ELSE Respond(p, req[p], loc[p], outcome)
    /\ UNCHANGED <<config, avail, bookings, nextAvailId, nextBookingId, completed,
                   pend, outbox, nreq>>

\* Booking.objects.create(...): the INSERT and the post_save receiver, which
\* sends the confirmation e-mails one recipient after the other; a failing
\* delivery raises, the transaction rolls back and the view answers 500.
ClaimInsert(p) ==
    /\ pc[p] = "claim_checked"
    /\ LET a == CHOOSE x \in loc[p].avails : TRUE
           b == [id |-> nextBookingId, availability |-> a.id,
                 student |-> req[p].user, message |-> Strip(req[p].text)]
       IN IF HasBooking(a.id)
            THEN \* unique constraint of the one-to-one relation
                 /\ Respond(p, req[p], loc[p], "ServerError")
                 /\ UNCHANGED <<nextBookingId, pend, outbox>>
            ELSE /\ nextBookingId' = nextBookingId + 1
                 /\ \E k \in 0..NumMails :
                      /\ outbox' = outbox \cup
                             Mails("BookingCreated", b, a.teacher, <<>>, k)
                      /\ IF k = NumMails
                           THEN /\ pend' = [pend EXCEPT ![p] = b]
                                /\ Goto(p, "claim_inserted", req[p],
                                        [loc[p] EXCEPT !.bookings = {b}])
                           ELSE /\ pend' = pend
                                /\ Respond(p, req[p],
                                           [loc[p] EXCEPT !.bookings = {b}],
                                           "ServerError")
    /\ UNCHANGED <<config, avail, bookings, nextAvailId, completed, nreq>>

\* Leaving the atomic block commits and releases the row lock
ClaimCommit(p) ==
    /\ pc[p] = "claim_inserted"
    /\ bookings' = bookings \cup {pend[p]}
    /\ pend' = [pend EXCEPT ![p] = NoBooking]
    /\ Respond(p, req[p], loc[p], "ok")
    /\ UNCHANGED <<config, avail, nextAvailId, nextBookingId, completed, outbox, nreq>>

\* ------------------------------------------------------------------------
\* cancel_booking (POST)
\* ------------------------------------------------------------------------
\* get_object_or_404(...): Http404 is caught by "except Exception" (500)
StartCancel(p, s, bid, reason) ==
    /\ CanStart(p)
    /\ nreq' = nreq + 1
    /\ LET r == [NoReq EXCEPT !.kind = "cancel", !.user = s, !.target = bid,
                              !.text = reason]
           found == FindBooking(bid, s)
       IN IF found = {}
            THEN Respond(p, r, NoLoc, "ServerError")
            ELSE Goto(p, "cancel_fetched", r,
                      [NoLoc EXCEPT
                         !.avails = {a \in avail :
                                       \E b \in found : a.id = b.availability},
                         !.bookings = found])
    /\ UNCHANGED <<config, avail, bookings, nextAvailId, nextBookingId, completed,
                   pend, outbox>>

\* booking.delete(): the pre_delete receiver sends the cancellation e-mails
CancelSignal(p) ==
    /\ pc[p] = "cancel_fetched"
    /\ LET b == CHOOSE x \in loc[p].bookings : TRUE
           a == CHOOSE x \in loc[p].avails : TRUE
       IN \E k \in 0..NumMails :
            /\ outbox' = outbox \cup
                   Mails("BookingCancelled", b, a.teacher,
                         CancellationMessageOf(req[p].text), k)
            /\ IF k = NumMails
                 THEN Goto(p, "cancel_signalled", req[p], loc[p])
                 ELSE Respond(p, req[p], loc[p], "ServerError")
    /\ UNCHANGED <<config, avail, bookings, nextAvailId, nextBookingId, completed,
                   pend, nreq>>

\* Variant: a cancellation that keeps the row
WithoutBookings_Kept(rows, gone) == rows

\* DELETE FROM booking WHERE id IN (...)
WithoutBookings(rows, gone) == {b \in rows : \A x \in gone : b.id # x.id}

\* booking.delete(): the DELETE statement, then the success response
CancelDelete(p) ==
    /\ pc[p] = "cancel_signalled"
    /\ bookings' = WithoutBookings(bookings, loc[p].bookings)
    /\ Respond(p, req[p], loc[p], "ok")
    /\ UNCHANGED <<config, avail, nextAvailId, nextBookingId, completed, pend,
                   outbox, nreq>>

\* ------------------------------------------------------------------------
\* save_availability (POST): set / delete an Availability
\* ------------------------------------------------------------------------
SaveCallers == {<<"t1", "">>, <<"a1", "t2">>}
MeetingTypeParams == {"online"}

\* Variant: the teacher_id parameter honoured for every caller
ResolveTeacher_TrustParameter(user, teacher_id) ==
    IF teacher_id # ""
      THEN IF teacher_id \in Teachers THEN teacher_id ELSE ""
      ELSE user

\* "Determine which teacher's availability to modify"; "" stands for Http404
ResolveTeacher(user, teacher_id) ==
    IF user \in Admins /\ teacher_id # ""
      THEN IF teacher_id \in Teachers THEN teacher_id ELSE ""
      ELSE user

\* (start_dt + timedelta(minutes=meeting_duration)).time()
EndTime(start_time) == (start_time + MEETING_DURATION) % MinutesPerDay

\* Variant: a save() that does not run clean()
FullCleanOk_NoDuration(a) ==
    /\ a.teacher \in Teachers
    /\ a.meeting_type \in MeetingTypes

\* Variant: a teacher field without limit_choices_to
FullCleanOk_AnyUser(a) ==
    /\ a.meeting_type \in MeetingTypes
    /\ a.end_time - a.start_time = MEETING_DURATION

\* Availability.save(): full_clean() checks the teacher's role
\* (limit_choices_to), the meeting type and the duration (clean)
FullCleanOk(a) ==
    /\ a.teacher \in Teachers
    /\ a.meeting_type \in MeetingTypes
    /\ a.end_time - a.start_time = MEETING_DURATION

SameKey(teacher, date, start_time) ==
    {a \in avail : a.teacher = teacher /\ a.date = date /\ a.start_time = start_time}

SaveRequest(user, teacher_id, date, start_time, mtype, note, action) ==
    [NoReq EXCEPT !.kind = "save", !.user = user, !.teacher_id = teacher_id,
                  !.date = date, !.start_time = start_time,
                  !.meeting_type = mtype, !.text = note, !.action = action]

\* Variant: a table without the unique_together constraint
UniqueViolation_Unconstrained(teacher, date, start_time) == FALSE

\* unique_together (teacher, date, start_time): an INSERT fails with
\* IntegrityError when a committed row has the key
UniqueViolation(teacher, date, start_time) ==
    SameKey(teacher, date, start_time) # {}

\* Variant: an update that leaves the meeting type of the row as it was
ApplyDefaults_KeepMeetingType(a, start_time, mtype, note) ==
    [a EXCEPT !.end_time = EndTime(start_time), !.message = note]

\* Variant: the row replaced by a new one instead of updated
ApplyDefaults_NewRow(a, start_time, mtype, note) ==
    [a EXCEPT !.id = nextAvailId, !.end_time = EndTime(start_time),
              !.meeting_type = mtype, !.message = note]

\* update_or_create(defaults=...): setattr of end_time, meeting_type, message
ApplyDefaults(a, start_time, mtype, note) ==
    [a EXCEPT !.end_time = EndTime(start_time), !.meeting_type = mtype,
              !.message = note]

\* The update branch of update_or_create: the locked row gets the defaults
\* and is saved (full_clean first), and the view answers "updated"
UpdateExisting(p, r, old) ==
    LET upd == {ApplyDefaults(a, r.start_time, r.meeting_type, r.text) : a \in old}
    IN /\ \A a \in old : LockFree(a.id)
       /\ IF \A a \in upd : FullCleanOk(a)
            THEN /\ avail' = (avail \ old) \cup upd
                 /\ Respond(p, r, [NoLoc EXCEPT !.avails = upd], "updated")
            ELSE /\ avail' = avail
                 /\ Respond(p, r, NoLoc, "ServerError")

\* action=set: the teacher is resolved, the meeting type validated, and
\* update_or_create looks the key up with select_for_update().get()
StartSet(p, user, teacher_id, date, start_time, mtype, note) ==
    /\ CanStart(p)
    /\ nreq' = nreq + 1
    /\ LET r == SaveRequest(user, teacher_id, date, start_time, mtype, note, "set")
           teacher == ResolveTeacher(user, teacher_id)
           old == SameKey(teacher, date, start_time)
       IN IF teacher = ""
            THEN /\ Respond(p, r, NoLoc, "ServerError")
                 /\ avail' = avail
            ELSE IF mtype \notin MeetingTypes
            THEN /\ Respond(p, r, NoLoc, "InvalidMeetingType")
                 /\ avail' = avail
            ELSE IF old # {}
            THEN UpdateExisting(p, r, old)
            ELSE /\ Goto(p, "set_missing", r, NoLoc)
                 /\ avail' = avail
    /\ UNCHANGED <<config, bookings, nextAvailId, nextBookingId, completed,
                   pend, outbox>>

\* The row update_or_create is about to create
NewAvailability(r) ==
    [id |-> nextAvailId, teacher |-> ResolveTeacher(r.user, r.teacher_id),
     date |-> r.date, start_time |-> r.start_time,
     end_time |-> EndTime(r.start_time), meeting_type |-> r.meeting_type,
     message |-> r.text]

\* create(): Availability.save() runs full_clean(), which validates the
\* fields, the duration (clean) and the uniqueness of the key
\* (validate_unique); a ValidationError ends the request with 500
SetValidate(p) ==
    /\ pc[p] = "set_missing"
    /\ LET new == NewAvailability(req[p])
       IN IF /\ FullCleanOk(new)
             /\ SameKey(new.teacher, new.date, new.start_time) = {}
            THEN Goto(p, "set_validated", req[p], NoLoc)
            ELSE Respond(p, req[p], NoLoc, "ServerError")
    /\ UNCHANGED <<config, avail, bookings, nextAvailId, nextBookingId,
                   completed, pend, outbox, nreq>>

\* create(): the INSERT; on IntegrityError get_or_create fetches the row that
\* won and update_or_create updates it
SetInsert(p) ==
    /\ pc[p] = "set_validated"
    /\ LET new == NewAvailability(req[p])
       IN IF UniqueViolation(new.teacher, new.date, new.start_time)
            THEN /\ UpdateExisting(p, req[p],
                        SameKey(new.teacher, new.date, new.start_time))
                 /\ nextAvailId' = nextAvailId
            ELSE /\ avail' = avail \cup {new}
                 /\ nextAvailId' = nextAvailId + 1
                 /\ Respond(p, req[p], [NoLoc EXCEPT !.avails = {new}], "created")
    /\ UNCHANGED <<config, bookings, nextBookingId, completed, pend, outbox, nreq>>

\* action=delete: the rows matching the key are collected together with the
\* Booking rows that cascade from them
StartUnset(p, user, teacher_id, date, start_time) ==
    /\ CanStart(p)
    /\ nreq' = nreq + 1
    /\ LET r == SaveRequest(user, teacher_id, date, start_time, "", <<>>, "delete")
           teacher == ResolveTeacher(user, teacher_id)
           old == SameKey(teacher, date, start_time)
       IN IF teacher = ""
            THEN Respond(p, r, NoLoc, "ServerError")
            ELSE IF old = {}
            THEN Respond(p, r, NoLoc, "deleted")
            ELSE Goto(p, IF CascadeBookings(old) = {} THEN "unset_signalled"
                                                      ELSE "unset_collected",
                      r, [NoLoc EXCEPT !.avails = old,
                                       !.bookings = CascadeBookings(old)])
    /\ UNCHANGED <<config, avail, bookings, nextAvailId, nextBookingId, completed,
                   pend, outbox>>

\* The pre_delete receiver runs for the collected Booking
UnsetSignal(p) ==
    /\ pc[p] = "unset_collected"
    /\ LET b == CHOOSE x \in loc[p].bookings : TRUE
           a == CHOOSE x \in loc[p].avails : x.id = b.availability
       IN \E k \in 0..NumMails :
            /\ outbox' = outbox \cup
                   Mails("BookingCancelled", b, a.teacher, <<>>, k)
            /\ IF k = NumMails
                 THEN Goto(p, "unset_signalled", req[p], loc[p])
                 ELSE Respond(p, req[p], loc[p], "ServerError")
    /\ UNCHANGED <<config, avail, bookings, nextAvailId, nextBookingId, completed,
                   pend, nreq>>

\* Variant: a Booking.availability column without the foreign key constraint
ForeignKeyViolation_Unchecked(rows, gone) == FALSE

\* The foreign key of Booking.availability: deleting rows is refused while a
\* Booking outside the deleted ones still references one of them
ForeignKeyViolation(rows, gone) ==
    \E b \in bookings \ gone : \E a \in rows : b.availability = a.id

\* The DELETE statements: they wait for the row lock, and a Booking that
\* was committed after the collection violates the foreign key (500)
UnsetDelete(p) ==
    /\ pc[p] = "unset_signalled"
    /\ \A a \in loc[p].avails : LockFree(a.id)
    /\ LET gone == {b \in bookings : \E x \in loc[p].bookings : b.id = x.id}
       IN IF ForeignKeyViolation(loc[p].avails, gone)
            THEN /\ Respond(p, req[p], loc[p], "ServerError")
                 /\ UNCHANGED <<avail, bookings>>
            ELSE /\ avail' = {a \in avail : \A x \in loc[p].avails : a.id # x.id}
                 /\ bookings' = bookings \ gone
                 /\ Respond(p, req[p], loc[p], "deleted")
    /\ UNCHANGED <<config, nextAvailId, nextBookingId, completed, pend, outbox, nreq>>

\* ------------------------------------------------------------------------
\* generate_time_slots: the grid of a day and the state of each position
\* ------------------------------------------------------------------------
\* map(int, "HH:MM".split(":")) and time(hour, minute), as minute of the day
MinuteOfDay(hm) == hm[1] * 60 + hm[2]

\* Availability.objects.filter(teacher=teacher, date=selected_date); without
\* a teacher no row is read
TeacherDay(teacher, date) ==
    IF teacher = "" THEN {}
    ELSE {a \in avail : a.teacher = teacher /\ a.date = date}

\* list(queryset): the rows in the order of Meta.ordering
RECURSIVE OrderedByStart(_)
OrderedByStart(rows) ==
    IF rows = {} THEN <<>>
    ELSE LET first == CHOOSE a \in rows :
                         \A x \in rows :
                            \/ a.start_time < x.start_time
                            \/ (a.start_time = x.start_time /\ a.id <= x.id)
         IN <<first>> \o OrderedByStart(rows \ {first})

\* Variant: the end of the meeting counted as inside it
Blocks_EndInclusive(availability, slot_start) ==
    availability.start_time < slot_start /\ slot_start <= availability.end_time

\* availability.start_time < slot_start < availability.end_time
Blocks(availability, slot_start) ==
    availability.start_time < slot_start /\ slot_start < availability.end_time

\* The loop over all_availabilities, left at the first meeting that blocks:
\* <<is_blocked, blocking_meeting_type>>
RECURSIVE BlockingScan(_, _)
BlockingScan(all_availabilities, slot_start) ==
    IF all_availabilities = <<>> THEN <<FALSE, "">>
    ELSE IF Blocks(Head(all_availabilities), slot_start)
    THEN <<TRUE, Head(all_availabilities).meeting_type>>
    ELSE BlockingScan(Tail(all_availabilities), slot_start)

\* One element of the result list
SlotView(slot_start, slot_end, rows) ==
    LET avail_data == {a \in rows : a.start_time = slot_start}
        scan == BlockingScan(OrderedByStart(rows), slot_start)
    IN [start_time |-> slot_start,
        end_time |-> slot_end % MinutesPerDay,
        is_available |-> avail_data # {},
        meeting_type |-> IF avail_data = {} THEN ""
                         ELSE (CHOOSE a \in avail_data : TRUE).meeting_type,
        availability_id |-> IF avail_data = {} THEN 0
                            ELSE (CHOOSE a \in avail_data : TRUE).id,
        is_blocked |-> scan[1],
        blocking_meeting_type |-> scan[2]]

\* Variant: a meeting that ends exactly at the end of the day is left out
PastEnd_Inclusive(slot_end_dt, end_time_dt) == slot_end_dt >= end_time_dt

\* "Skip this slot if the meeting would extend past the end time"
PastEnd(slot_end_dt, end_time_dt) == slot_end_dt > end_time_dt

\* while current_time < end_time_dt: ... current_time += slot_duration
RECURSIVE GridLoop(_, _, _, _)
GridLoop(current_time, end_time_dt, cfg, rows) ==
    IF ~ (current_time < end_time_dt) THEN <<>>
    ELSE LET slot_end_dt == current_time + cfg.MEETING_DURATION
         IN IF PastEnd(slot_end_dt, end_time_dt) THEN <<>>
            ELSE <<SlotView(current_time, slot_end_dt, rows)>> \o
                 GridLoop(current_time + cfg.SLOT_DURATION, end_time_dt, cfg, rows)

generate_time_slots(cfg, selected_date, teacher) ==
    GridLoop(MinuteOfDay(cfg.START_TIME), MinuteOfDay(cfg.END_TIME), cfg,
             TeacherDay(teacher, selected_date))

\* ------------------------------------------------------------------------
\* date_detail_view (GET): the grid of one day of one teacher
\* ------------------------------------------------------------------------
\* "Determine which teacher's calendar to show"
ViewingTeacher(user, teacher_id) ==
    IF user \in Admins
      THEN IF teacher_id # "" /\ teacher_id \in Teachers THEN teacher_id ELSE ""
      ELSE user

DateDetail(p, user, teacher_id, date) ==
    /\ CanStart(p)
    /\ nreq' = nreq + 1
    /\ LET r == [NoReq EXCEPT !.kind = "day", !.user = user,
                              !.teacher_id = teacher_id, !.date = date]
           viewing_teacher == ViewingTeacher(user, teacher_id)
       IN IF user \in Admins /\ teacher_id # "" /\ viewing_teacher = ""
            THEN Respond(p, r, NoLoc, "UserNotFound")
            ELSE Respond(p, r,
                         [NoLoc EXCEPT
                            !.avails = TeacherDay(viewing_teacher, date),
                            !.slots = IF viewing_teacher = "" THEN <<>>
                                      ELSE generate_time_slots(config, date,
                                                               viewing_teacher)],
                         "ok")
    /\ UNCHANGED <<config, avail, bookings, nextAvailId, nextBookingId,
                   completed, pend, outbox>>

\* ------------------------------------------------------------------------
\* Specification
\* ------------------------------------------------------------------------
AvailIds == {a.id : a \in avail} \cup {nextAvailId}
BookingIds == {b.id : b \in bookings} \cup {nextBookingId}

Next ==
    \/ \E s \in Students : SubmitQuestionnaire(s)
    \/ \E p \in Procs, s \in Students, aid \in AvailIds :
          StartClaim(p, s, aid, ClaimMessage[s])
    \/ \E p \in Procs : ClaimLock(p)
    \/ \E p \in Procs : ClaimCheck(p)
    \/ \E p \in Procs : ClaimInsert(p)
    \/ \E p \in Procs : ClaimCommit(p)
    \/ \E p \in Procs, s \in Students, bid \in BookingIds, r \in CancelReasons :
          StartCancel(p, s, bid, r)
    \/ \E p \in Procs : CancelSignal(p)
    \/ \E p \in Procs : CancelDelete(p)
    \/ \E p \in Procs, c \in SaveCallers, d \in Dates, st \in StartTimes,
          mt \in MeetingTypeParams, n \in SlotNotes :
          StartSet(p, c[1], c[2], d, st, mt, n)
    \/ \E p \in Procs : SetValidate(p)
    \/ \E p \in Procs : SetInsert(p)
    \/ \E p \in Procs, c \in SaveCallers, d \in Dates, st \in StartTimes :
          StartUnset(p, c[1], c[2], d, st)
    \/ \E p \in Procs : UnsetSignal(p)
    \/ \E p \in Procs : UnsetDelete(p)

Spec == Init /\ [][Next]_vars

\* ------------------------------------------------------------------------
\* Concurrent claims of distinct students on one open slot
\* ------------------------------------------------------------------------
\* The claim requests received so far: those in service and the last answered
RaceRequests == {req[q] : q \in Procs} \cup {last.req}

InitRace ==
    /\ avail = SeedAvail
    /\ bookings = {}
    /\ nextAvailId = Cardinality(SeedAvail) + 1
    /\ nextBookingId = 1
    /\ completed = Students
    /\ pc = [p \in Procs |-> "idle"]
    /\ req = [p \in Procs |-> NoReq]
    /\ loc = [p \in Procs |-> NoLoc]
    /\ pend = [p \in Procs |-> NoBooking]
    /\ outbox = {}
    /\ last = [req |-> NoReq, loc |-> NoLoc, res |-> "none"]
    /\ nreq = 0
    /\ config = DayConfig

\* Each student claims once, and all of them claim the same slot
RaceClaim(p, s, aid) ==
    /\ nreq < Cardinality(Students)
    /\ \A r \in RaceRequests : r.kind = "claim" => (r.user # s /\ r.target = aid)
    /\ StartClaim(p, s, aid, ClaimMessage[s])

NextRace ==
    \/ \E p \in Procs, s \in Students, a \in SeedAvail : RaceClaim(p, s, a.id)
    \/ \E p \in Procs : ClaimLock(p)
    \/ \E p \in Procs : ClaimCheck(p)
    \/ \E p \in Procs : ClaimInsert(p)
    \/ \E p \in Procs : ClaimCommit(p)

SpecRace == InitRace /\ [][NextRace]_vars

\* ------------------------------------------------------------------------
\* The availability store of one teacher, edited by the teacher and by an
\* admin on the teacher's behalf
\* ------------------------------------------------------------------------
StoreCallers == {<<"t1", "">>, <<"a1", "t1">>}
StoreDates == {1}
\* 09:00, 09:07, 09:15 and 23:45
StoreStartTimes == {540, 547, 555, 1425}
StoreMeetingTypes == {"online", "both"}

InitStore ==
    /\ avail = {}
    /\ bookings = {}
    /\ nextAvailId = 1
    /\ nextBookingId = 1
    /\ completed = Students
    /\ pc = [p \in Procs |-> "idle"]
    /\ req = [p \in Procs |-> NoReq]
    /\ loc = [p \in Procs |-> NoLoc]
    /\ pend = [p \in Procs |-> NoBooking]
    /\ outbox = {}
    /\ last = [req |-> NoReq, loc |-> NoLoc, res |-> "none"]
    /\ nreq = 0
    /\ config = DayConfig

NextStore ==
    \/ \E p \in Procs, c \in StoreCallers, d \in StoreDates,
          st \in StoreStartTimes, mt \in StoreMeetingTypes, n \in SlotNotes :
          StartSet(p, c[1], c[2], d, st, mt, n)
    \/ \E p \in Procs : SetValidate(p)
    \/ \E p \in Procs : SetInsert(p)
    \/ \E p \in Procs, c \in StoreCallers, d \in StoreDates,
          st \in StoreStartTimes :
          StartUnset(p, c[1], c[2], d, st)
    \/ \E p \in Procs : UnsetDelete(p)
    \/ \E p \in Procs, c \in StoreCallers, d \in StoreDates :
          DateDetail(p, c[1], c[2], d)

SpecStore == InitStore /\ [][NextStore]_vars

\* ------------------------------------------------------------------------
\* The grid under different settings
\* ------------------------------------------------------------------------
GridStartTimes == {<<8, 0>>, <<8, 30>>}
GridEndTimes == {<<8, 0>>, <<8, 20>>, <<9, 0>>, <<9, 40>>}
GridSlotDurations == {10, 15, 30}
GridMeetingDurations == {20, 30, 45}

GridConfigs ==
    [START_TIME : GridStartTimes, END_TIME : GridEndTimes,
     SLOT_DURATION : GridSlotDurations, MEETING_DURATION : GridMeetingDurations]

GridCallers == {<<"t1", "">>, <<"a1", "t2">>}

InitGrid ==
    /\ avail = SeedAvail
    /\ bookings = {}
    /\ nextAvailId = Cardinality(SeedAvail) + 1
    /\ nextBookingId = 1
    /\ completed = Students
    /\ pc = [p \in Procs |-> "idle"]
    /\ req = [p \in Procs |-> NoReq]
    /\ loc = [p \in Procs |-> NoLoc]
    /\ pend = [p \in Procs |-> NoBooking]
    /\ outbox = {}
    /\ last = [req |-> NoReq, loc |-> NoLoc, res |-> "none"]
    /\ nreq = 0
    /\ config \in GridConfigs

NextGrid ==
    \E p \in Procs, c \in GridCallers, d \in Dates : DateDetail(p, c[1], c[2], d)

SpecGrid == InitGrid /\ [][NextGrid]_vars

\* ------------------------------------------------------------------------
\* save_availability on the seeded database: a teacher who supplies another
\* teacher's id, and an admin with and without a teacher_id
\* ------------------------------------------------------------------------
OwnerCallers == {<<"t1", "t2">>, <<"a1", "">>, <<"a1", "t2">>}
OwnerMeetingTypes == {"online", "both"}
OwnerNotes == {<<"n">>}

NextOwner ==
    \/ \E p \in Procs, c \in OwnerCallers, d \in Dates, st \in StartTimes,
          mt \in OwnerMeetingTypes, n \in OwnerNotes :
          StartSet(p, c[1], c[2], d, st, mt, n)
    \/ \E p \in Procs : SetValidate(p)
    \/ \E p \in Procs : SetInsert(p)
    \/ \E p \in Procs, c \in OwnerCallers, d \in Dates, st \in StartTimes :
          StartUnset(p, c[1], c[2], d, st)
    \/ \E p \in Procs : UnsetSignal(p)
    \/ \E p \in Procs : UnsetDelete(p)

SpecOwner == Init /\ [][NextOwner]_vars

\* ------------------------------------------------------------------------
\* Claims of all students on all slots, with workers and database scheduled
\* fairly: a handler that can take its next step eventually takes it
\* ------------------------------------------------------------------------
NextClaim ==
    \/ \E p \in Procs, s \in Students, aid \in AvailIds :
          StartClaim(p, s, aid, ClaimMessage[s])
    \/ \E p \in Procs : ClaimLock(p)
    \/ \E p \in Procs : ClaimCheck(p)
    \/ \E p \in Procs : ClaimInsert(p)
    \/ \E p \in Procs : ClaimCommit(p)

FairClaim ==
    \A p \in Procs :
        /\ WF_vars(ClaimLock(p))
        /\ WF_vars(ClaimCheck(p))
        /\ WF_vars(ClaimInsert(p))
        /\ WF_vars(ClaimCommit(p))

SpecClaimFair == InitRace /\ [][NextClaim]_vars /\ FairClaim

\* ------------------------------------------------------------------------
\* Properties
\* ------------------------------------------------------------------------
AllIdle == \A p \in Procs : pc[p] = "idle"

DateOf(b) == {a.date : a \in {x \in avail : x.id = b.availability}}

\* A committed Booking of student s on date d
HoldsBookingOn(s, d) == \E b \in bookings : b.student = s /\ d \in DateOf(b)

CancelledMails(bid) ==
    {m \in outbox : m.kind = "BookingCancelled" /\ m.booking = bid}

\* Complete BookingCancelled notifications (every recipient) about a Booking
FullCancellations(bid) ==
    {n \in {m.n : m \in CancelledMails(bid)} :
        Cardinality({m \in CancelledMails(bid) : m.n = n}) = NumMails}

\* C1: when distinct students claim the same open slot concurrently, every
\* call ends either as the single winner or with AlreadyBooked, and once all
\* calls have returned exactly one Booking row exists for the slot.
C1_ExactlyOneWinner ==
    /\ (nreq = Cardinality(Students) /\ last.req.kind = "claim") =>
           last.res \in {"ok", "AlreadyBooked"}
    /\ (nreq = Cardinality(Students) /\ AllIdle) =>
           Cardinality(BookingOf(last.req.target)) = 1

\* C2: a student never holds two Bookings whose slots have the same date.
C2_OneBookingPerStudentPerDay ==
    \A b1, b2 \in bookings :
        (b1.student = b2.student /\ DateOf(b1) \cap DateOf(b2) # {}) => b1 = b2

\* C3: a claim on an unbooked slot by a student who already holds a committed
\* Booking on the slot's date is answered DuplicateDailyBooking and changes
\* no Booking.
C3_DuplicateDailyRejected ==
    [][\A p \in Procs :
         (/\ pc[p] = "claim_locked"
          /\ pc'[p] # "claim_locked"
          /\ \E a \in loc[p].avails :
                /\ BookingOf(a.id) = {}
                /\ HoldsBookingOn(req[p].user, a.date))
         => /\ last'.res = "DuplicateDailyBooking"
            /\ last'.req = req[p]
            /\ pc'[p] = "idle"
            /\ bookings' = bookings
            /\ pend' = pend]_vars

C3_Witness ==
    /\ last.req.kind = "claim"
    /\ last.res = "DuplicateDailyBooking"
    /\ \E a \in last.loc.avails :
          /\ BookingOf(a.id) = {}
          /\ \E b \in bookings, x \in avail :
                /\ b.student = last.req.user
                /\ x.id = b.availability
                /\ x.date = a.date
                /\ x.teacher # a.teacher

\* C4: a claim on a slot that already has a Booking is answered
\* AlreadyBooked, also when the student holds a Booking on that date, and the
\* Booking rows stay as they are.
C4_AlreadyBookedFirst ==
    [][\A p \in Procs :
         (/\ pc[p] = "claim_locked"
          /\ pc'[p] # "claim_locked"
          /\ \E a \in loc[p].avails : BookingOf(a.id) # {})
         => /\ last'.res = "AlreadyBooked"
            /\ last'.req = req[p]
            /\ pc'[p] = "idle"
            /\ bookings' = bookings
            /\ pend' = pend]_vars

C4_Witness ==
    /\ last.req.kind = "claim"
    /\ last.res = "AlreadyBooked"
    /\ \E a \in last.loc.avails :
          /\ Cardinality(BookingOf(a.id)) = 1
          /\ HoldsBookingOn(last.req.user, a.date)

\* C5: a cancel by the owner whose reason is blank after trimming is
\* rejected with a 400-class answer, keeps the Booking and sends no
\* BookingCancelled e-mail (requests cut short by a failed delivery aside).
C5_BlankReasonRejected ==
    (/\ last.req.kind = "cancel"
     /\ Strip(last.req.text) = <<>>
     /\ last.loc.bookings # {}
     /\ last.res # "ServerError")
    => /\ Status(last.res) = 400
       /\ last.loc.bookings \subseteq bookings
       /\ \A b \in last.loc.bookings : CancelledMails(b.id) = {}

\* C6: a successful cancel with a non-empty reason has deleted the Booking
\* and every recipient's BookingCancelled e-mail carries that reason.
C6_ReasonCarried ==
    (/\ last.req.kind = "cancel"
     /\ Strip(last.req.text) # <<>>
     /\ last.res = "ok")
    => \A b \in last.loc.bookings :
          /\ b \notin bookings
          /\ CancelledMails(b.id) # {}
          /\ \A m \in CancelledMails(b.id) :
                m.reason \in {last.req.text, Strip(last.req.text)}

\* C7: at most one complete BookingCancelled notification is ever sent about
\* a Booking, whatever the interleaving of the owner's cancel requests.
C7_AtMostOneCancelledEvent ==
    \A bid \in 1..nextBookingId : Cardinality(FullCancellations(bid)) <= 1

\* C8: no step of a cancel request removes a Booking of another student or
\* sends a BookingCancelled e-mail about one.
C8_OnlyOwnerCancels ==
    [][\A p \in Procs :
         (req[p].kind = "cancel" /\ pc'[p] # pc[p])
         => /\ \A b \in bookings \ bookings' : b.student = req[p].user
            /\ \A m \in outbox' \ outbox :
                  \E b \in loc[p].bookings :
                     b.id = m.booking /\ b.student = req[p].user]_vars

C8_Witness ==
    /\ last.req.kind = "cancel"
    /\ last.res = "ServerError"
    /\ \E b \in bookings : b.id = last.req.target /\ b.student # last.req.user

C10_CreatedAfterCommit ==
    \A m \in outbox :
        m.kind = "BookingCreated" =>
            /\ \A p \in Procs : pend[p].id # m.booking
            /\ ~ (/\ last.req.kind = "claim"
                  /\ last.res = "ServerError"
                  /\ \E b \in last.loc.bookings : b.id = m.booking)

\* One notification about a Booking reached some recipients but not all of
\* them: a delivery failed part way
PartialBatch(kind, bid) ==
    LET ms == {m \in outbox : m.kind = kind /\ m.booking = bid}
    IN \E n \in {m.n : m \in ms} :
          Cardinality({m \in ms : m.n = n}) < NumMails

\* C11: a cancel request emits BookingCancelled only after the Booking is
\* deleted: in the step in which a cancel request hands BookingCancelled
\* e-mails to the mail backend, the Booking they are about is no longer in
\* the store.
C11_CancelledAfterDelete ==
    [][\A p \in Procs :
         req[p].kind = "cancel" =>
            \A m \in outbox' \ outbox :
               m.kind = "BookingCancelled" =>
                  \A b \in bookings' : b.id # m.booking]_vars

\* C12: a delivery failure during a claim or a cancel neither undoes the
\* state change nor reaches the caller: the claim whose confirmation failed
\* part way answers success and its Booking exists, and the cancel whose
\* notification failed part way answers success and its Booking is deleted.
C12_DeliveryFailureTolerated ==
    \A b \in last.loc.bookings :
        /\ (last.req.kind = "claim" /\ PartialBatch("BookingCreated", b.id))
              => (last.res = "ok" /\ b \in bookings)
        /\ (last.req.kind = "cancel" /\ PartialBatch("BookingCancelled", b.id))
              => (last.res = "ok" /\ b \notin bookings)

\* The meeting windows [start, end) of two entries intersect
Overlap(a, b) == a.start_time < b.end_time /\ b.start_time < a.end_time

\* The starts of the grid: day_start + k * fine_step with the meeting ending
\* by day_end
GridStarts(cfg) ==
    {s \in MinuteOfDay(cfg.START_TIME)..MinuteOfDay(cfg.END_TIME) :
        /\ (s - MinuteOfDay(cfg.START_TIME)) % cfg.SLOT_DURATION = 0
        /\ s + cfg.MEETING_DURATION <= MinuteOfDay(cfg.END_TIME)}

\* The rows of the key a set / delete request addresses
KeyRows(r, rows) ==
    {a \in rows : /\ a.teacher = ResolveTeacher(r.user, r.teacher_id)
                  /\ a.date = r.date
                  /\ a.start_time = r.start_time}

IsSet(r) == r.kind = "save" /\ r.action = "set"

\* C13: no two entries of one teacher on one date have overlapping meeting
\* windows: a set whose start lies inside another entry's window, or whose
\* window would contain another entry's start, creates nothing.
C13_NoOverlappingEntries ==
    \A a, b \in avail :
        (a.teacher = b.teacher /\ a.date = b.date /\ a.id # b.id)
            => ~ Overlap(a, b)

\* C14: a set whose start_time is not a start of the day's grid is rejected
\* (whatever the name of the error) and creates or modifies no entry, so
\* every stored entry starts on the grid.
C14_OffGridRejected ==
    /\ \A a \in avail : a.start_time \in GridStarts(config)
    /\ (IsSet(last.req) /\ last.req.start_time \notin GridStarts(config))
       => /\ last.res \notin {"created", "updated"}
          /\ KeyRows(last.req, avail) = {}

\* C15: a set that follows a successful set on the same key, with no other
\* response in between, answers "updated", leaves exactly one entry for the
\* key with the identity it had, gives it the mode and note of the second
\* call and touches no other entry; with identical arguments the store is
\* left as it was.
C15_SetIdempotent ==
    [][(/\ nreq' = nreq + 1
        /\ pc' = pc
        /\ IsSet(last'.req)
        /\ IsSet(last.req)
        /\ last.res \in {"created", "updated"}
        /\ ResolveTeacher(last.req.user, last.req.teacher_id) =
              ResolveTeacher(last'.req.user, last'.req.teacher_id)
        /\ last.req.date = last'.req.date
        /\ last.req.start_time = last'.req.start_time
        /\ last'.req.meeting_type \in MeetingTypes)
       => /\ last'.res = "updated"
          /\ Cardinality(KeyRows(last'.req, avail')) = 1
          /\ {a.id : a \in KeyRows(last'.req, avail')} =
                {a.id : a \in KeyRows(last'.req, avail)}
          /\ \A a \in KeyRows(last'.req, avail') :
                /\ a.meeting_type = last'.req.meeting_type
                /\ a.message = last'.req.text
          /\ avail' \ KeyRows(last'.req, avail') =
                avail \ KeyRows(last'.req, avail)
          /\ (/\ last.req.meeting_type = last'.req.meeting_type
              /\ last.req.text = last'.req.text) => avail' = avail]_vars

C15_Witness ==
    /\ nreq = 2
    /\ IsSet(last.req)
    /\ last.res = "updated"
    /\ nextAvailId = 2
    /\ avail = last.loc.avails
    /\ \A a \in avail : a.id = 1 /\ a.meeting_type = "both"

\* C16: at most one entry exists per (teacher, date, start_time), also when
\* the teacher and an admin acting for the teacher set the same key
\* concurrently.
C16_UniqueKey ==
    \A a, b \in avail :
        (a.teacher = b.teacher /\ a.date = b.date /\ a.start_time = b.start_time)
            => a = b

\* Two set requests of different users raced on one key: one has created the
\* entry while the other, past its validation, is about to insert
C16_Witness ==
    \E p \in Procs :
        /\ pc[p] = "set_validated"
        /\ IsSet(last.req)
        /\ last.res = "created"
        /\ last.req.user # req[p].user
        /\ KeyRows(req[p], avail) # {}
        /\ KeyRows(req[p], avail) = last.loc.avails

\* C17: every Booking references an existing entry, under every interleaving
\* of claims with deletes of the entry.
C17_BookingHasEntry ==
    \A b \in bookings : \E a \in avail : a.id = b.availability

\* A delete that had collected the entry without a Booking found, at its
\* DELETE, the Booking a claim committed in between, and removed nothing
C17_Witness ==
    /\ last.req.kind = "save"
    /\ last.req.action = "delete"
    /\ last.res = "ServerError"
    /\ last.loc.bookings = {}
    /\ last.loc.avails # {}
    /\ last.loc.avails \subseteq avail
    /\ \E b \in bookings : \E a \in last.loc.avails : b.availability = a.id

\* C18: every stored entry lasts exactly the meeting duration within its
\* day, and a set whose computed end does not give that duration (a window
\* crossing midnight) stores nothing.
C18_ExactDuration ==
    /\ \A a \in avail :
          /\ a.end_time - a.start_time = MEETING_DURATION
          /\ a.start_time \in 0..(MinutesPerDay - 1)
          /\ a.end_time \in 0..(MinutesPerDay - 1)
    /\ (IsSet(last.req) /\
        EndTime(last.req.start_time) - last.req.start_time # MEETING_DURATION)
       => /\ last.res \notin {"created", "updated"}
          /\ KeyRows(last.req, avail) = {}

C18_Witness ==
    /\ IsSet(last.req)
    /\ last.req.start_time = 1425
    /\ last.req.meeting_type \in MeetingTypes
    /\ last.res = "ServerError"
    /\ KeyRows(last.req, avail) = {}

\* C19: for every configuration the generated grid is the sequence of all
\* starts day_start + k * fine_step whose meeting ends by day_end, in
\* increasing order, each with end = start + meeting_duration; it is empty
\* when the day is shorter than a meeting.
C19_GridIsReference ==
    (/\ last.req.kind = "day"
     /\ last.res = "ok"
     /\ ViewingTeacher(last.req.user, last.req.teacher_id) # "")
    => LET slots == last.loc.slots
           day_start == MinuteOfDay(config.START_TIME)
           day_end == MinuteOfDay(config.END_TIME)
       IN /\ Len(slots) = Cardinality(GridStarts(config))
          /\ \A i \in 1..Len(slots) :
                /\ slots[i].start_time = day_start + (i - 1) * config.SLOT_DURATION
                /\ slots[i].start_time \in GridStarts(config)
                /\ slots[i].end_time =
                      slots[i].start_time + config.MEETING_DURATION
                /\ slots[i].end_time <= day_end
          /\ (day_end - day_start < config.MEETING_DURATION) => slots = <<>>

\* A grid of several positions whose last meeting ends exactly at day_end
C19_Witness ==
    /\ last.req.kind = "day"
    /\ last.res = "ok"
    /\ Len(last.loc.slots) >= 2
    /\ last.loc.slots[Len(last.loc.slots)].end_time = MinuteOfDay(config.END_TIME)
    /\ config.SLOT_DURATION < config.MEETING_DURATION

\* C20: a grid position at which no entry starts is reported blocked exactly
\* when some entry of that teacher and date has start < position < end, both
\* strict: the position equal to an entry's end is not blocked.
C20_BlockedIffStrictlyInside ==
    (last.req.kind = "day" /\ last.res = "ok")
    => \A i \in 1..Len(last.loc.slots) :
          LET slot == last.loc.slots[i]
          IN ~ slot.is_available =>
                (slot.is_blocked <=>
                    \E other \in last.loc.avails :
                        /\ other.start_time < slot.start_time
                        /\ slot.start_time < other.end_time)

\* With the entry 09:00-09:30: 09:00 is open, 09:15 blocked, 09:30 empty
C20_Witness ==
    /\ last.req.kind = "day"
    /\ last.res = "ok"
    /\ \E a \in last.loc.avails : a.start_time = 540 /\ a.end_time = 570
    /\ \E i, j, k \in 1..Len(last.loc.slots) :
          /\ last.loc.slots[i].start_time = 540
          /\ last.loc.slots[i].is_available
          /\ last.loc.slots[j].start_time = 555
          /\ ~ last.loc.slots[j].is_available
          /\ last.loc.slots[j].is_blocked
          /\ last.loc.slots[k].start_time = 570
          /\ ~ last.loc.slots[k].is_available
          /\ ~ last.loc.slots[k].is_blocked

\* C21: in every state of the store, the day view of every teacher and date
\* never reports a position at which an entry starts as blocked as well,
\* whatever other entries the teacher has on that date.
C21_StartNeverBlocked ==
    \A t \in Teachers, d \in Dates :
        LET slots == generate_time_slots(config, d, t)
        IN \A i \in 1..Len(slots) :
              slots[i].is_available => ~ slots[i].is_blocked

\* C22: the commit of a successful claim changes what the day view of the
\* slot's teacher and date reports (the position turns from OPEN to BOOKED),
\* and so does the DELETE of a successful cancel (BOOKED back to OPEN).
C22_ViewFollowsBooking ==
    [][\A p \in Procs :
         (/\ pc[p] \in {"claim_inserted", "cancel_signalled"}
          /\ pc'[p] = "idle"
          /\ last'.res = "ok")
         => \A a \in loc[p].avails, t \in Teachers, d \in Dates :
               (a.teacher = t /\ a.date = d /\ a \in avail)
               => generate_time_slots(config, d, t)'
                     # generate_time_slots(config, d, t)]_vars

\* C23: a claim whose availability_id matches no slot is answered
\* EntryNotFound with status 404 and creates no Booking, and a cancel whose
\* booking_id matches no Booking of the caller is answered with status 404.
C23_NotFoundIs404 ==
    /\ (last.req.kind = "claim" /\ last.res = "EntryNotFound")
          => /\ Status(last.res) = 404
             /\ last.loc.bookings = {}
    /\ (last.req.kind = "cancel" /\ last.loc.bookings = {})
          => Status(last.res) = 404

\* BookingCreated e-mails about Booking bid addressed to user u
CreatedMailsTo(bid, u) ==
    {m \in outbox : m.kind = "BookingCreated" /\ m.booking = bid /\ m.to = u}

\* C24: when a claim succeeds, exactly one BookingCreated e-mail about the
\* new Booking has gone to each of the student, the slot's teacher and every
\* admin, and to nobody else; a claim answered AlreadyBooked,
\* DuplicateDailyBooking or EntryNotFound has built no Booking and its
\* answering step sends nothing.
C24_OneCreatedMailEach ==
    [][\A p \in Procs :
         (pc[p] # "idle" /\ req[p].kind = "claim" /\ pc'[p] = "idle")
         => /\ (last'.res = "ok") =>
                  \A b \in loc[p].bookings, a \in loc[p].avails :
                     /\ \A u \in {b.student, a.teacher} \cup Admins :
                           Cardinality(CreatedMailsTo(b.id, u)') = 1
                     /\ \A m \in outbox' :
                           (m.kind = "BookingCreated" /\ m.booking = b.id)
                           => m.to \in {b.student, a.teacher} \cup Admins
            /\ (last'.res \in {"AlreadyBooked", "DuplicateDailyBooking",
                               "EntryNotFound"}) =>
                  /\ outbox' = outbox
                  /\ loc[p].bookings = {}]_vars

C24_Witness ==
    /\ last.req.kind = "claim"
    /\ last.res = "ok"
    /\ \E b \in last.loc.bookings, a \in last.loc.avails :
          /\ b \in bookings
          /\ \A u \in {b.student, a.teacher} \cup Admins :
                Cardinality(CreatedMailsTo(b.id, u)) = 1

\* C25: every claim that has started eventually returns: a handler waiting
\* for the row lock of its slot is eventually granted it or answered.
C25_ClaimTerminates ==
    \A p \in Procs : (pc[p] # "idle") ~> (pc[p] = "idle")

\* A claim waiting while another claim holds the lock of the same slot
C25_Witness ==
    \E p, q \in Procs :
        /\ pc[p] = "claim_wait"
        /\ AvailById(req[p].target) # {}
        /\ q \in LockHolders(req[p].target)

\* C26: the DELETE of a successful cancel leaves no row of the Booking; a
\* claim on a slot without Booking by a student without Booking on that date
\* passes the checks; a committed claim adds a row whose id no row has and
\* about which no cancellation was ever sent; and no step changes a Booking
\* row in place.
C26_CancelDeletesRebookIsFresh ==
    [][/\ \A p \in Procs :
            (pc[p] = "cancel_signalled" /\ pc'[p] = "idle" /\ last'.res = "ok")
            => \A x \in loc[p].bookings, b \in bookings' : b.id # x.id
       /\ \A p \in Procs :
            (/\ pc[p] = "claim_locked"
             /\ pc'[p] # "claim_locked"
             /\ \E a \in loc[p].avails :
                   /\ BookingOf(a.id) = {}
                   /\ ~ HoldsBookingOn(req[p].user, a.date))
            => pc'[p] = "claim_checked"
       /\ \A p \in Procs :
            (pc[p] = "claim_inserted" /\ pc'[p] = "idle")
            => /\ pend[p] \in bookings'
               /\ \A b \in bookings : b.id # pend[p].id
               /\ CancelledMails(pend[p].id) = {}
       /\ \A b \in bookings' :
            b \in bookings \/ (\A x \in bookings : x.id # b.id)]_vars

\* The slot of a cancelled Booking booked again, under a new id
C26_Witness ==
    /\ last.req.kind = "claim"
    /\ last.res = "ok"
    /\ \E b \in bookings :
          /\ b.id # SeedBooking.id
          /\ b.availability = SeedBooking.availability
          /\ FullCancellations(SeedBooking.id) # {}
          /\ \A x \in bookings : x.id # SeedBooking.id

\* C27: every Booking, committed or not, and every claim that got past the
\* questionnaire check belongs to a student with a completed questionnaire.
C27_QuestionnaireBeforeBooking ==
    /\ \A b \in bookings : b.student \in completed
    /\ \A p \in Procs :
          /\ (pend[p] # NoBooking) => pend[p].student \in completed
          /\ (pc[p] # "idle" /\ req[p].kind = "claim") => req[p].user \in completed

C27_Witness ==
    /\ last.req.kind = "claim"
    /\ last.res = "QuestionnaireRequired"
    /\ last.req.user \notin completed
    /\ \A b \in bookings : b.student # last.req.user

\* The user on whose behalf a step runs: the caller of the request that
\* worker p serves before or after the step
Caller(p) == IF pc[p] = "idle" THEN req'[p].user ELSE req[p].user

\* A step that receives a request and answers it at once
AnsweredAtOnce == nreq' # nreq /\ pc' = pc

EntriesOfOthers(t, rows) == {a \in rows : a.teacher # t}

\* C28: no step of a save request whose caller is a teacher changes the
\* entries of any other teacher, also when the request names another
\* teacher in teacher_id.
C28_TeacherChangesOwnOnly ==
    [][\A t \in Teachers :
         (\/ \E p \in Procs : pc'[p] # pc[p] /\ Caller(p) = t
          \/ AnsweredAtOnce /\ last'.req.user = t)
         => EntriesOfOthers(t, avail') = EntriesOfOthers(t, avail)]_vars

\* A teacher names another teacher, who has an entry at the same key, and
\* the request acts on the caller's own entry
C28_Witness ==
    /\ last.req.kind = "save"
    /\ last.req.user \in Teachers
    /\ last.req.teacher_id \in Teachers \ {last.req.user}
    /\ last.res \in {"created", "updated", "deleted"}
    /\ last.loc.avails # {}
    /\ \A a \in last.loc.avails : a.teacher = last.req.user
    /\ \E a \in avail : /\ a.teacher = last.req.teacher_id
                        /\ a.date = last.req.date
                        /\ a.start_time = last.req.start_time

\* C29: every stored entry belongs to a teacher; a set by an admin that
\* creates or updates an entry names a teacher and the entry is that
\* teacher's; a set by an admin without teacher_id creates and updates
\* nothing, and no entry belongs to the admin.
C29_EntriesBelongToTeachers ==
    /\ \A a \in avail : a.teacher \in Teachers
    /\ (IsSet(last.req) /\ last.req.user \in Admins
           /\ last.res \in {"created", "updated"})
          => /\ last.req.teacher_id \in Teachers
             /\ \A a \in last.loc.avails : a.teacher = last.req.teacher_id
    /\ (IsSet(last.req) /\ last.req.user \in Admins /\ last.req.teacher_id = "")
          => /\ last.res \notin {"created", "updated"}
             /\ \A a \in avail : a.teacher # last.req.user

\* An admin's set without teacher_id has reached full_clean and was refused
C29_Witness ==
    /\ IsSet(last.req)
    /\ last.req.user \in Admins
    /\ last.req.teacher_id = ""
    /\ last.req.meeting_type \in MeetingTypes
    /\ last.res = "ServerError"
    /\ \A a \in avail : a.teacher \in Teachers

\* C30: a set answered "updated" on an entry that has a Booking leaves in
\* its place the same entry with the requested meeting type and note and
\* nothing else changed, leaves every other entry and every Booking as it
\* was, and sends no e-mail.
C30_SetOnBookedKeepsBooking ==
    [][(/\ AnsweredAtOnce \/ \E p \in Procs : pc[p] = "set_validated" /\ pc'[p] = "idle"
        /\ IsSet(last'.req)
        /\ last'.res = "updated")
       => \A a \in KeyRows(last'.req, avail) :
             BookingOf(a.id) # {}
             => /\ [a EXCEPT !.meeting_type = last'.req.meeting_type,
                             !.message = last'.req.text] \in avail'
                /\ \A x \in avail' :
                      x.id = a.id => /\ x.teacher = a.teacher
                                     /\ x.date = a.date
                                     /\ x.start_time = a.start_time
                                     /\ x.end_time = a.end_time
                /\ {x \in avail' : x.id # a.id} = avail \ {a}
                /\ bookings' = bookings
                /\ outbox' = outbox]_vars

\* The booked entry after a set that changed its meeting type and its note
C30_Witness ==
    /\ IsSet(last.req)
    /\ last.res = "updated"
    /\ \E a \in last.loc.avails :
          /\ a \in avail
          /\ a.id = SeedBooking.availability
          /\ a.meeting_type = "both"
          /\ a.message # <<>>
          /\ SeedBooking \in BookingOf(a.id)

====
